---- MODULE Spec2Model ----
(***************************************************************************)
(* Model of the lexer in src/main.rs: make_token (the classifier of a word *)
(* run) and tokenize (the scan loop, the string sub-loop and the error     *)
(* reporter).                                                              *)
(*                                                                         *)
(* The source text is a sequence of bytes (code.as_bytes()).  All indices  *)
(* of the program (idx, start, i, the iterator position) are kept 0-based  *)
(* as in the source; Byte(k) reads code[k + 1] of the 1-based TLA+         *)
(* sequence.  One behaviour of the model is one call of tokenize: every    *)
(* step is one pass through the body of a loop of tokenize.                *)
(***************************************************************************)
EXTENDS Integers, Sequences, FiniteSets, TLC

(***************************************************************************)
(* Bounds of the model: an input is the concatenation of at most MaxParts  *)
(* words of Lexicon and is at most MaxBytes bytes long.                    *)
(***************************************************************************)
MaxParts == 3

MaxBytes == 8

(***************************************************************************)
(* The words the inputs are built from, as UTF-8 bytes.                    *)
(*   " "  "\t"  "\n"  "a"  "x"  "end"  "0x1F"  "0b12"  "42"  "."           *)
(*   "="  "-"  '"'  "'"  "@"  "inf"  "e-acute" (two bytes, 0xC3 0xA9)      *)
(*   and a string literal that holds a line break: '"' "\n" '"'            *)
(***************************************************************************)
Lexicon ==
    { <<32>>, <<9>>, <<10>>, <<97>>, <<120>>, <<101, 110, 100>>,
      <<48, 120, 49, 70>>, <<48, 98, 49, 50>>, <<52, 50>>, <<46>>,
      <<61>>, <<45>>, <<34>>, <<39>>, <<64>>, <<105, 110, 102>>,
      <<195, 169>>, <<34, 10, 34>> }

RECURSIVE Texts(_)
Texts(n) ==
    IF n = 0 THEN { <<>> }
    ELSE LET shorter == Texts(n - 1)
         IN  shorter \cup
             { t \o w : <<t, w>> \in
                 { p \in shorter \X Lexicon : Len(p[1]) + Len(p[2]) <= MaxBytes } }

Inputs == Texts(MaxParts)

(***************************************************************************)
(* Byte classes of the scan loop.                                          *)
(***************************************************************************)
\* IsBlank without the tab
IsBlankNoTab(c) == c = 32

\* b' ' | b'\t'
IsBlank(c) == c = 32 \/ c = 9

\* b'\n'
IsNewline(c) == c = 10

\* b'a'..=b'z' | b'A'..=b'Z' | b'_' | b'0'..=b'9' | b'.'
IsWord(c) ==
    \/ c \in 97..122
    \/ c \in 65..90
    \/ c = 95
    \/ c \in 48..57
    \/ c = 46

\* b'"' | b'\''
IsQuote(c) == c = 34 \/ c = 39

\* the twelve single-byte tokens, in the order of the match arms
SymbolKind(c) ==
    CASE c = 44 -> "Comma"
      [] c = 58 -> "Colon"
      [] c = 61 -> "Equals"
      [] c = 59 -> "SemiColon"
      [] c = 124 -> "Or"
      [] c = 38 -> "And"
      [] c = 94 -> "Xor"
      [] c = 47 -> "Divide"
      [] c = 42 -> "Multiply"
      [] c = 43 -> "Plus"
      [] c = 45 -> "Minus"
      [] c = 37 -> "Modulo"
      [] OTHER -> "None"

IsSymbol(c) == SymbolKind(c) # "None"

(***************************************************************************)
(* Library conversions used by make_token, modelled by what they do.       *)
(***************************************************************************)
\* char::to_digit: the value of a byte as a digit, -1 when it is none
DigitVal(c) ==
    IF c \in 48..57 THEN c - 48
    ELSE IF c \in 97..122 THEN c - 97 + 10
    ELSE IF c \in 65..90 THEN c - 65 + 10
    ELSE -1

IsDigit(c, radix) == DigitVal(c) \in 0..(radix - 1)

IsSign(c) == c = 43 \/ c = 45

Tail1(s) == SubSeq(s, 2, Len(s))

\* the digits of the largest magnitude an i64 holds: 2^63 - 1, or 2^63 when
\* the number is negative
I64Limit(radix, negative) ==
    CASE radix = 10 ->
           <<9, 2, 2, 3, 3, 7, 2, 0, 3, 6, 8, 5, 4, 7, 7, 5, 8, 0>>
             \o (IF negative THEN <<8>> ELSE <<7>>)
      [] radix = 16 ->
           IF negative THEN [k \in 1..16 |-> IF k = 1 THEN 8 ELSE 0]
           ELSE [k \in 1..16 |-> IF k = 1 THEN 7 ELSE 15]
      [] radix = 2 ->
           IF negative THEN [k \in 1..64 |-> IF k = 1 THEN 1 ELSE 0]
           ELSE [k \in 1..63 |-> 1]

RECURSIVE StripZeros(_)
StripZeros(ds) ==
    IF Len(ds) > 0 /\ ds[1] = 0 THEN StripZeros(Tail1(ds)) ELSE ds

\* the magnitude written by the digits ds is larger than the limit
Exceeds(ds, limit) ==
    LET sig == StripZeros(ds)
    IN  \/ Len(sig) > Len(limit)
        \/ /\ Len(sig) = Len(limit)
           /\ \E k \in 1..Len(sig) :
                /\ sig[k] > limit[k]
                /\ \A j \in 1..(k - 1) : sig[j] = limit[j]

RECURSIVE Magnitude(_, _, _)
Magnitude(ds, radix, acc) ==
    IF Len(ds) = 0 THEN acc
    ELSE Magnitude(Tail1(ds), radix, acc * radix + ds[1])

\* i64::from_str_radix (and str::parse::<i64> for radix 10): an optional
\* sign, then one or more digits of the radix; Err on an empty string, a
\* lone sign, a byte that is no digit, or a value outside i64
ParseInt(s, radix) ==
    LET signed == Len(s) > 0 /\ IsSign(s[1])
        negative == signed /\ s[1] = 45
        body == IF signed THEN Tail1(s) ELSE s
        ds == [k \in 1..Len(body) |-> DigitVal(body[k])]
        fail == [ok |-> FALSE, val |-> 0]
    IN  IF Len(body) = 0 THEN fail
        ELSE IF \E k \in 1..Len(body) : ~IsDigit(body[k], radix) THEN fail
        ELSE IF Exceeds(ds, I64Limit(radix, negative)) THEN fail
        ELSE [ok |-> TRUE,
              val |-> IF negative THEN 0 - Magnitude(ds, radix, 0)
                      ELSE Magnitude(ds, radix, 0)]

\* ASCII lower case of a byte
Lower(c) == IF c \in 65..90 THEN c + 32 ELSE c

\* "inf", "infinity", "nan" in any letter case
IsSpecialFloat(s) ==
    [k \in 1..Len(s) |-> Lower(s[k])] \in
        { <<105, 110, 102>>,
          <<105, 110, 102, 105, 110, 105, 116, 121>>,
          <<110, 97, 110>> }

\* Digit* with at most one '.', and at least one digit
IsMantissa(s) ==
    /\ \A k \in 1..Len(s) : IsDigit(s[k], 10) \/ s[k] = 46
    /\ Cardinality({k \in 1..Len(s) : s[k] = 46}) <= 1
    /\ \E k \in 1..Len(s) : IsDigit(s[k], 10)

\* Sign? Digit+
IsExponent(s) ==
    LET body == IF Len(s) > 0 /\ IsSign(s[1]) THEN Tail1(s) ELSE s
    IN  /\ Len(body) > 0
        /\ \A k \in 1..Len(body) : IsDigit(body[k], 10)

\* str::parse::<f64> succeeds: Sign? ('inf' | 'infinity' | 'nan' | Number),
\* Number = mantissa, then optionally 'e' or 'E' and an exponent
ParseFloatOk(s) ==
    LET body == IF Len(s) > 0 /\ IsSign(s[1]) THEN Tail1(s) ELSE s
        marks == {k \in 1..Len(body) : Lower(body[k]) = 101}
    IN  \/ IsSpecialFloat(body)
        \/ marks = {} /\ IsMantissa(body)
        \/ \E e \in marks :
             /\ \A k \in marks : e <= k
             /\ IsMantissa(SubSeq(body, 1, e - 1))
             /\ IsExponent(SubSeq(body, e + 1, Len(body)))

IsAlphaUnderscore(c) == c \in 97..122 \/ c \in 65..90 \/ c = 95

\* the regex \w on ASCII text
IsRegexWord(c) == IsAlphaUnderscore(c) \/ c \in 48..57

\* ident_regex.is_match(lexeme) for ^[a-zA-Z_]+\w*$
IdentMatch(s) ==
    /\ Len(s) >= 1
    /\ IsAlphaUnderscore(s[1])
    /\ \A k \in 1..Len(s) : IsRegexWord(s[k])

(***************************************************************************)
(* make_token: the classifier of a word run.                               *)
(***************************************************************************)
\* the keyword arms of the match, "None" for the `_` arm
Keyword(lexeme) ==
    CASE lexeme = <<108, 101, 116>> -> "Let"
      [] lexeme = <<100, 101, 102>> -> "Def"
      [] lexeme = <<115, 116, 114, 117, 99, 116>> -> "Struct"
      [] lexeme = <<102, 117, 110, 99>> -> "Func"
      [] lexeme = <<118, 97, 114>> -> "Var"
      [] lexeme = <<114, 101, 112, 101, 97, 116>> -> "Repeat"
      [] lexeme = <<117, 110, 116, 105, 108>> -> "Until"
      [] lexeme = <<101, 110, 100>> -> "End"
      [] OTHER -> "None"

\* lexeme.strip_prefix("0x") / ("0b") is Some
HasPrefix(lexeme, second) ==
    Len(lexeme) >= 2 /\ lexeme[1] = 48 /\ lexeme[2] = second

Stripped(lexeme) == SubSeq(lexeme, 3, Len(lexeme))

\* the kind make_token gives a lexeme: [ok, kind, text, val]; the payload of
\* a FloatLiteral is kept as the text it was parsed from
Classify(lexeme) ==
    LET plain(k) == [ok |-> TRUE, kind |-> k, text |-> <<>>, val |-> 0]
        int(v) == [ok |-> TRUE, kind |-> "IntegerLiteral", text |-> <<>>, val |-> v]
        invalid == [ok |-> FALSE, kind |-> "InvalidToken", text |-> <<>>, val |-> 0]
    IN  IF Keyword(lexeme) # "None" THEN plain(Keyword(lexeme))
        ELSE IF HasPrefix(lexeme, 120) THEN
            IF ParseInt(Stripped(lexeme), 16).ok
            THEN int(ParseInt(Stripped(lexeme), 16).val)
            ELSE invalid
        ELSE IF HasPrefix(lexeme, 98) THEN
            IF ParseInt(Stripped(lexeme), 2).ok
            THEN int(ParseInt(Stripped(lexeme), 2).val)
            ELSE invalid
        ELSE IF ParseInt(lexeme, 10).ok THEN int(ParseInt(lexeme, 10).val)
        ELSE IF ParseFloatOk(lexeme)
            THEN [ok |-> TRUE, kind |-> "FloatLiteral", text |-> lexeme, val |-> 0]
        ELSE IF IdentMatch(lexeme)
            THEN [ok |-> TRUE, kind |-> "Identifier", text |-> lexeme, val |-> 0]
        ELSE invalid

\* `col - (lexeme.len() - 1)` leaves usize: lexeme.len() - 1 does for an empty
\* lexeme, the outer subtraction does for a lexeme longer than col
ColUnderflows(lexeme, cl) == Len(lexeme) = 0 \/ cl < Len(lexeme) - 1

\* let col = col - (lexeme.len() - 1).  With wrapping arithmetic an empty
\* lexeme gives col - (2^64 - 1) = col + 1 (mod 2^64).
TokenCol(lexeme, cl) ==
    IF Len(lexeme) = 0 THEN cl + 1 ELSE cl - (Len(lexeme) - 1)

\* make_token(lexeme, line, col): [ok, token] with the error kind in
\* token.kind when ok is FALSE
MakeToken(lexeme, ln, cl) ==
    LET c == Classify(lexeme)
    IN  [ok |-> c.ok,
         token |-> [kind |-> c.kind, text |-> c.text, val |-> c.val,
                    line |-> ln, col |-> TokenCol(lexeme, cl)]]

(***************************************************************************)
(* tokenize: the state of one call.                                        *)
(*   code     the source text, as bytes                                    *)
(*   pos      the index the iterator `iter` yields next                    *)
(*   line, col, start, i     the locals of tokenize                        *)
(*   idx, scanned            the pair bound by the current `while let`     *)
(*   tokens   the vector of tokens pushed so far                           *)
(*   lexeme   the slice <<from, to>> handed to make_token in the pass just *)
(*            made, <<>> when the pass did not call make_token             *)
(*   pc       "scan": at the head of the scan loop; "string": at the head  *)
(*            of the string sub-loop; "done": tokenize has ended           *)
(*   result   what the call ended with: Ok(tokens), Err(LexerError) or a   *)
(*            panic                                                        *)
(***************************************************************************)
VARIABLES code, pos, line, col, start, i, idx, scanned, tokens, lexeme, pc, result

vars == <<code, pos, line, col, start, i, idx, scanned, tokens, lexeme, pc, result>>

Byte(k) == code[k + 1]

\* k is a char boundary of the text: its ends, or no UTF-8 continuation byte
IsCharBoundary(k) ==
    \/ k = 0
    \/ k = Len(code)
    \/ k \in 1..(Len(code) - 1) /\ Byte(k) \notin 128..191

\* &code[a..b] does not panic
SliceOk(a, b) ==
    /\ 0 <= a
    /\ a <= b
    /\ b <= Len(code)
    /\ IsCharBoundary(a)
    /\ IsCharBoundary(b)

\* &code[a..b]
Str(a, b) == SubSeq(code, a + 1, b)

Running ==
    [status |-> "running", tokens |-> <<>>, error_kind |-> "None", chr |-> 0,
     line |-> 0, col |-> 0, snippet |-> <<>>]

\* Ok(tokens)
OkResult(toks) == [Running EXCEPT !.status = "ok", !.tokens = toks]

\* a panic of the call: "overflow" (an arithmetic overflow in a build with
\* overflow checks) or "slice" (a str slice out of range or off a boundary)
Panic(why) == [Running EXCEPT !.status = "panic", !.error_kind = why]

\* Err(LexerError { error_kind, line, col, filename, snippet })
ErrResult(kind, c, ln, cl, snip) ==
    [Running EXCEPT !.status = "err", !.error_kind = kind, !.chr = c,
                    !.line = ln, !.col = cl, !.snippet = snip]

Init ==
    /\ code \in Inputs
    /\ pos = 0
    /\ line = 1
    /\ col = 1
    /\ start = 0
    /\ i = 0
    /\ idx = 0
    /\ scanned = 0
    /\ tokens = <<>>
    /\ lexeme = <<>>
    /\ pc = "scan"
    /\ result = Running

\* the call ends without a value
Abort(why) ==
    /\ pc' = "done"
    /\ result' = Panic(why)
    /\ UNCHANGED <<col, start, tokens>>

\* Ok(token) => tokens.push(token); then start = idx; col += 1
Push(token, cl) ==
    /\ tokens' = Append(tokens, token)
    /\ start' = idx'
    /\ col' = cl + 1
    /\ pc' = "scan"
    /\ result' = result

\* Err(error_kind) => return Err(LexerError { .. snippet: &code[i - col + 1..=i] })
\* `i - col` leaves usize when i < col: a build with overflow checks panics,
\* another wraps, and the `+ 1` wraps back to i - col + 1 when that is 0; a
\* negative value here stands for the wrapped one, which is beyond the text.
Fail(kind, c, ii, cl, checked) ==
    LET from == ii - cl + 1
    IN  IF ii < cl /\ checked THEN Abort("overflow")
        ELSE IF ~SliceOk(from, ii + 1) THEN Abort("slice")
        ELSE /\ pc' = "done"
             /\ result' = ErrResult(kind, c, line, cl, Str(from, ii + 1))
             /\ UNCHANGED <<col, start, tokens>>

\* Take with iter.peek() in the place of iter.next(): the cursor stays
TakePeek ==
    /\ pc = "scan"
    /\ pos < Len(code)
    /\ idx' = pos
    /\ scanned' = Byte(pos)
    /\ i' = pos
    /\ pos' = pos
    /\ code' = code

\* while let Some((idx, scanned)) = iter.next() { i = idx; ..
Take ==
    /\ pc = "scan"
    /\ pos < Len(code)
    /\ idx' = pos
    /\ scanned' = Byte(pos)
    /\ i' = pos
    /\ pos' = pos + 1
    /\ code' = code

\* b' ' | b'\t' => { col += 1; start = idx + 1; continue; }
Blank ==
    /\ Take
    /\ IsBlank(Byte(pos))
    /\ col' = col + 1
    /\ start' = pos + 1
    /\ lexeme' = <<>>
    /\ UNCHANGED <<line, tokens, pc, result>>

\* b'\n' => { col = 1; line += 1; start = idx + 1; continue; }
Newline ==
    /\ Take
    /\ IsNewline(Byte(pos))
    /\ col' = 1
    /\ line' = line + 1
    /\ start' = pos + 1
    /\ lexeme' = <<>>
    /\ UNCHANGED <<tokens, pc, result>>

\* a word byte whose lookahead is a word byte: { col += 1; continue; }
WordContinue ==
    /\ Take
    /\ IsWord(Byte(pos))
    /\ pos + 1 < Len(code)
    /\ IsWord(Byte(pos + 1))
    /\ col' = col + 1
    /\ lexeme' = <<>>
    /\ UNCHANGED <<line, start, tokens, pc, result>>

\* make_token(&code[from..to], line, col) and the match on its result
Classified(from, to) ==
    /\ lexeme' = <<from, to>>
    /\ line' = line
    /\ \E checked \in BOOLEAN :
         IF ~SliceOk(from, to) THEN Abort("slice")
         ELSE LET made == MakeToken(Str(from, to), line, col)
              IN  IF ColUnderflows(Str(from, to), col) /\ checked
                  THEN Abort("overflow")
                  ELSE IF made.ok THEN Push(made.token, col)
                  ELSE Fail(made.token.kind, 0, pos, col, checked)

\* a word byte whose lookahead is no word byte:
\* make_token(&code[start..*next_idx], line, col)
WordEnd ==
    /\ Take
    /\ IsWord(Byte(pos))
    /\ pos + 1 < Len(code)
    /\ ~IsWord(Byte(pos + 1))
    /\ Classified(start, pos + 1)

\* a word byte with no lookahead: make_token(&code[start..idx], line, col)
WordEof ==
    /\ Take
    /\ IsWord(Byte(pos))
    /\ pos + 1 = Len(code)
    /\ Classified(start, pos)

\* b',' .. b'%' => Ok(Token { kind, line, col })
Symbol ==
    /\ Take
    /\ IsSymbol(Byte(pos))
    /\ lexeme' = <<>>
    /\ line' = line
    /\ Push([kind |-> SymbolKind(Byte(pos)), text |-> <<>>, val |-> 0,
             line |-> line, col |-> col], col)

\* b'"' | b'\'' => loop { ..
StringOpen ==
    /\ Take
    /\ IsQuote(Byte(pos))
    /\ pc' = "string"
    /\ lexeme' = <<>>
    /\ UNCHANGED <<line, col, start, tokens, result>>

\* if let Some((x, chr)) = iter.next() { col += 1; i += 1; .. } with chr != scanned
StringStep ==
    /\ pc = "string"
    /\ pos < Len(code)
    /\ Byte(pos) # scanned
    /\ pos' = pos + 1
    /\ col' = col + 1
    /\ i' = i + 1
    /\ UNCHANGED <<code, line, start, idx, scanned, tokens, lexeme, pc, result>>

\* .. with chr == scanned: lexeme = &code[start + 1..x]; len = lexeme.len() + 1;
\* break Ok(Token { kind: StringLiteral(lexeme), line, col: col - len })
StringClose ==
    /\ pc = "string"
    /\ pos < Len(code)
    /\ Byte(pos) = scanned
    /\ pos' = pos + 1
    /\ i' = i + 1
    /\ UNCHANGED <<code, line, idx, scanned, lexeme>>
    /\ \E checked \in BOOLEAN :
         IF ~SliceOk(start + 1, pos) THEN Abort("slice")
         ELSE LET text == Str(start + 1, pos)
                  len == Len(text) + 1
              IN  IF col + 1 < len /\ checked THEN Abort("overflow")
                  ELSE Push([kind |-> "StringLiteral", text |-> text, val |-> 0,
                             line |-> line, col |-> (col + 1) - len], col + 1)

\* } else { break Err(LexerErrorKind::UnexpectedEof(format!("a '{}'", *scanned as char))) }
StringEof ==
    /\ pc = "string"
    /\ pos = Len(code)
    /\ UNCHANGED <<code, pos, line, i, idx, scanned, lexeme>>
    /\ \E checked \in BOOLEAN : Fail("UnexpectedEof", scanned, i, col, checked)

\* _ => Err(LexerErrorKind::UnexpectedCharacter(*scanned as char))
Unexpected ==
    /\ Take
    /\ ~IsBlank(Byte(pos))
    /\ ~IsNewline(Byte(pos))
    /\ ~IsWord(Byte(pos))
    /\ ~IsSymbol(Byte(pos))
    /\ ~IsQuote(Byte(pos))
    /\ lexeme' = <<>>
    /\ line' = line
    /\ \E checked \in BOOLEAN :
         Fail("UnexpectedCharacter", Byte(pos), pos, col, checked)

\* iter.next() is None at the head of the scan loop: Ok(tokens)
Finish ==
    /\ pc = "scan"
    /\ pos = Len(code)
    /\ pc' = "done"
    /\ result' = OkResult(tokens)
    /\ lexeme' = <<>>
    /\ UNCHANGED <<code, pos, line, col, start, i, idx, scanned, tokens>>

Next ==
    \/ Blank
    \/ Newline
    \/ WordContinue
    \/ WordEnd
    \/ WordEof
    \/ Symbol
    \/ StringOpen
    \/ StringStep
    \/ StringClose
    \/ StringEof
    \/ Unexpected
    \/ Finish

Spec == Init /\ [][Next]_vars

(***************************************************************************)
(* Reference notions the properties are stated with.                       *)
(***************************************************************************)
\* the true 1-based line of the byte at index k
TrueLine(k) == 1 + Cardinality({j \in 0..(k - 1) : Byte(j) = 10})

\* the index of the first byte of the line that holds index k
LineStart(k) ==
    LET breaks == {j \in 0..(k - 1) : Byte(j) = 10}
    IN  IF breaks = {} THEN 0
        ELSE (CHOOSE j \in breaks : \A m \in breaks : m <= j) + 1

\* the true 1-based column of the byte at index k
TrueCol(k) == k - LineStart(k) + 1

\* the first and the last index of the maximal run of word bytes around k
RunFirst(k) ==
    CHOOSE a \in 0..k :
        /\ \A j \in a..k : IsWord(Byte(j))
        /\ a = 0 \/ ~IsWord(Byte(a - 1))

RunLast(k) ==
    CHOOSE b \in k..(Len(code) - 1) :
        /\ \A j \in k..b : IsWord(Byte(j))
        /\ b = Len(code) - 1 \/ ~IsWord(Byte(b + 1))

\* the word run the pass just made has classified: make_token was called
\* for the run around idx
RunClassified == lexeme # <<>>

Run == Str(RunFirst(idx), RunLast(idx) + 1)

\* the pass just made has pushed a token of this kind and payload
Emitted(kind, text, val) ==
    /\ pc = "scan"
    /\ Len(tokens) > 0
    /\ tokens[Len(tokens)].kind = kind
    /\ tokens[Len(tokens)].text = text
    /\ tokens[Len(tokens)].val = val

\* r is Err with this kind and payload, and no tokens
IsErr(r, kind, c) ==
    /\ r.status = "err"
    /\ r.error_kind = kind
    /\ r.chr = c
    /\ r.tokens = <<>>

\* the call has returned Err with this kind and payload, and no tokens
Returned(kind, c) == IsErr(result, kind, c)

(***************************************************************************)
(* C1  Maximal munch: the lexeme handed to make_token for a word run is    *)
(* the whole maximal run of word bytes, from its first to its last byte,   *)
(* whether a non-word byte or the end of input ends the run.               *)
(***************************************************************************)
MaximalMunch ==
    RunClassified => lexeme = <<RunFirst(idx), RunLast(idx) + 1>>

(***************************************************************************)
(* C2  Token position: a token that is pushed records the true 1-based     *)
(* (line, col) of the first byte of its lexeme: of the word run, of the    *)
(* symbol, or of the opening quote of the string.                          *)
(***************************************************************************)
TokenPosition ==
    [][ Len(tokens') > Len(tokens) =>
          LET first == IF IsWord(Byte(idx')) THEN RunFirst(idx') ELSE idx'
              token == tokens'[Len(tokens')]
          IN  /\ token.line = TrueLine(first)
              /\ token.col = TrueCol(first) ]_vars

(***************************************************************************)
(* C3  Cursor position: at the head of every pass of the scan loop the     *)
(* counters (line, col) are the true position of the byte at the cursor.   *)
(***************************************************************************)
CursorPosition ==
    pc = "scan" => line = TrueLine(pos) /\ col = TrueCol(pos)

(***************************************************************************)
(* C4  Keyword exactness: a word run that is exactly a keyword is emitted  *)
(* as that keyword; an identifier-shaped run that has a keyword only as a  *)
(* proper prefix is emitted as one Identifier carrying the whole run.      *)
(***************************************************************************)
HasKeywordPrefix(s) ==
    \E n \in 1..(Len(s) - 1) : Keyword(SubSeq(s, 1, n)) # "None"

KeywordExact ==
    RunClassified =>
        /\ Keyword(Run) # "None" => Emitted(Keyword(Run), <<>>, 0)
        /\ Keyword(Run) = "None" /\ HasKeywordPrefix(Run) /\ IdentMatch(Run)
             => Emitted("Identifier", Run, 0)

(***************************************************************************)
(* C5  Radix correctness: a run `0x` + hex digits, `0b` + binary digits or *)
(* decimal digits only, of a value within i64, is emitted as the           *)
(* IntegerLiteral of the value of all its digits in that radix.            *)
(***************************************************************************)
AllDigits(s, radix) ==
    Len(s) >= 1 /\ \A k \in 1..Len(s) : IsDigit(s[k], radix)

DigitsValue(s, radix) ==
    Magnitude([k \in 1..Len(s) |-> DigitVal(s[k])], radix, 0)

InI64(s, radix) ==
    ~Exceeds([k \in 1..Len(s) |-> DigitVal(s[k])], I64Limit(radix, FALSE))

RadixCorrect ==
    RunClassified =>
        /\ HasPrefix(Run, 120) /\ AllDigits(Stripped(Run), 16)
             /\ InI64(Stripped(Run), 16)
             => Emitted("IntegerLiteral", <<>>, DigitsValue(Stripped(Run), 16))
        /\ HasPrefix(Run, 98) /\ AllDigits(Stripped(Run), 2)
             /\ InI64(Stripped(Run), 2)
             => Emitted("IntegerLiteral", <<>>, DigitsValue(Stripped(Run), 2))
        /\ AllDigits(Run, 10) /\ InI64(Run, 10)
             => Emitted("IntegerLiteral", <<>>, DigitsValue(Run, 10))

(***************************************************************************)
(* C6  String payload: when the string sub-loop meets the closing quote,   *)
(* one StringLiteral is pushed whose payload is the bytes strictly between *)
(* the opening quote (at idx) and the closing quote.                       *)
(***************************************************************************)
StringPayload ==
    [][ pc = "string" /\ pos < Len(code) /\ Byte(pos) = scanned =>
          /\ Len(tokens') = Len(tokens) + 1
          /\ tokens'[Len(tokens')].kind = "StringLiteral"
          /\ tokens'[Len(tokens')].text = Str(idx + 1, pos) ]_vars

(***************************************************************************)
(* C7  Source order: the tokens returned on success come from disjoint     *)
(* pieces of the source in source order, so their recorded (line, col)     *)
(* positions are strictly increasing.                                      *)
(***************************************************************************)
Before(s, t) == s.line < t.line \/ (s.line = t.line /\ s.col < t.col)

SourceOrder ==
    result.status = "ok" =>
        \A k \in 1..(Len(result.tokens) - 1) :
            Before(result.tokens[k], result.tokens[k + 1])

(***************************************************************************)
(* C8  Unterminated string: when the input ends inside a string opened by  *)
(* the quote q, tokenize returns Err(UnexpectedEof) naming q, and no       *)
(* tokens.                                                                 *)
(***************************************************************************)
UnterminatedString ==
    [][ pc = "string" /\ pos = Len(code) =>
          IsErr(result', "UnexpectedEof", scanned) ]_vars

(***************************************************************************)
(* C9  Unknown symbol: when the scan loop reaches a byte c of no class,    *)
(* tokenize returns Err(UnexpectedCharacter(c)), on any line.              *)
(***************************************************************************)
IsUnknown(c) ==
    ~IsBlank(c) /\ ~IsNewline(c) /\ ~IsWord(c) /\ ~IsSymbol(c) /\ ~IsQuote(c)

UnknownSymbol ==
    [][ pc = "scan" /\ pos < Len(code) /\ IsUnknown(Byte(pos)) =>
          IsErr(result', "UnexpectedCharacter", Byte(pos)) ]_vars

(***************************************************************************)
(* C10  Numeric prefix commitment: a word run that starts with `0x` or     *)
(* `0b` and whose rest is no non-empty digit sequence of that radix makes  *)
(* tokenize return Err(InvalidToken); no token is emitted for it.          *)
(***************************************************************************)
BadPrefixed(s) ==
    \/ HasPrefix(s, 120) /\ ~AllDigits(Stripped(s), 16)
    \/ HasPrefix(s, 98) /\ ~AllDigits(Stripped(s), 2)

PrefixCommitment ==
    RunClassified /\ BadPrefixed(Run) => Returned("InvalidToken", 0)

(***************************************************************************)
(* C11  Fail-fast: when tokenize returns an error, no token is returned    *)
(* with it, no byte after the failing byte has been consumed, and the      *)
(* error is the one of an offending construct: an InvalidToken is returned *)
(* only for a word run that make_token does not accept.                    *)
(***************************************************************************)
FailFast ==
    result.status = "err" =>
        /\ result.tokens = <<>>
        /\ pos = i + 1
        /\ result.error_kind = "InvalidToken" => ~Classify(Run).ok

(***************************************************************************)
(* C12  No-lexeme input: an input of spaces, tabs and newlines only (the   *)
(* empty input too) never gets a token, an error or a panic, and the call  *)
(* returns Ok with the empty sequence; and in any input a space, a tab or  *)
(* a newline met by the scan loop changes neither the tokens nor the       *)
(* result.                                                                 *)
(***************************************************************************)
WhitespaceOnly ==
    \A k \in 1..Len(code) : code[k] \in {32, 9, 10}

NoLexeme ==
    /\ [](WhitespaceOnly =>
            /\ tokens = <<>>
            /\ result.status \in {"running", "ok"}
            /\ pc = "done" \/ ENABLED Next
            /\ pc = "done" => result = OkResult(<<>>))
    /\ [][ pc = "scan" /\ pos < Len(code) /\ Byte(pos) \in {32, 9, 10} =>
             /\ tokens' = tokens
             /\ result' = result
             /\ pc' = "scan" ]_vars

\* a call on three or more blanks, a tab and a newline among them, has
\* returned
NoLexemeWitness ==
    /\ WhitespaceOnly
    /\ Len(code) >= 3
    /\ \E k \in 1..Len(code) : code[k] = 9
    /\ \E k \in 1..Len(code) : code[k] = 10
    /\ pc = "done"
    /\ result.status = "ok"

StartMarker ==
    [][ Len(tokens') > Len(tokens) => start' = pos' ]_vars

(***************************************************************************)
(* C15  Error snippet bounds: when tokenize returns an error, i is the     *)
(* index of the failing byte, i - col does not leave usize, the snippet    *)
(* start i - col + 1 lies in 0..i, and the snippet is                      *)
(* code[i - col + 1 ..= i].                                                *)
(***************************************************************************)
SnippetBounds ==
    result.status = "err" =>
        /\ col <= i
        /\ 0 <= i - col + 1
        /\ i - col + 1 <= i
        /\ i < Len(code)
        /\ result.snippet = Str(i - col + 1, i + 1)

(***************************************************************************)
(* C16  Column lower bound: every token returned has col >= 1 and its      *)
(* (line, col) is the position of a byte of the source.                    *)
(***************************************************************************)
PositionExists(ln, cl) ==
    \E k \in 0..(Len(code) - 1) : TrueLine(k) = ln /\ TrueCol(k) = cl

TokenInSource ==
    result.status = "ok" =>
        \A k \in 1..Len(result.tokens) :
            /\ result.tokens[k].col >= 1
            /\ PositionExists(result.tokens[k].line, result.tokens[k].col)

(***************************************************************************)
(* C17  Non-ASCII input: when the scan loop reaches a byte of a multi-byte *)
(* UTF-8 character, tokenize returns Err(UnexpectedCharacter) for that     *)
(* byte, with a snippet that ends on a char boundary.                      *)
(***************************************************************************)
NonAscii ==
    [][ pc = "scan" /\ pos < Len(code) /\ Byte(pos) >= 128 =>
          /\ IsErr(result', "UnexpectedCharacter", Byte(pos))
          /\ IsCharBoundary(pos + 1) ]_vars

(***************************************************************************)
(* C18  Non-empty lexeme: the slice handed to make_token, at either call   *)
(* site, holds at least one byte, so lexeme.len() - 1 does not leave       *)
(* usize.                                                                  *)
(***************************************************************************)
NonEmptyLexeme == RunClassified => lexeme[2] - lexeme[1] >= 1

(***************************************************************************)
(* C19  Identifier-shaped runs: a lexeme of letters, digits and            *)
(* underscores that begins with a letter or an underscore and is no        *)
(* keyword is classified by make_token as the Identifier carrying it.      *)
(***************************************************************************)
Lexeme == Str(lexeme[1], lexeme[2])

IdentifierShaped ==
    RunClassified /\ IdentMatch(Lexeme) /\ Keyword(Lexeme) = "None" =>
        Emitted("Identifier", Lexeme, 0)

(***************************************************************************)
(* Inputs with a decimal run above i64::MAX.  The run is the 19 digits of  *)
(* 9223372036854775808 (i64::MAX + 1); it stands at the head of its line,  *)
(* after at most one blank or line break, and is followed by a tail of at  *)
(* most MaxTail words of Lexicon that begins with a byte that ends the     *)
(* run, so that the slice handed to make_token is the whole run.           *)
(***************************************************************************)
MaxTail == 2

BigDigits ==
    <<57, 50, 50, 51, 51, 55, 50, 48, 51, 54, 56, 53, 52, 55, 55, 53, 56, 48, 56>>

Leads == { <<>>, <<32>>, <<9>>, <<10>> }

Tails == { t \in Texts(MaxTail) : Len(t) >= 1 /\ ~IsWord(t[1]) }

BigInputs == { p \o BigDigits \o t : <<p, t>> \in Leads \X Tails }

InitBig ==
    /\ code \in BigInputs
    /\ pos = 0
    /\ line = 1
    /\ col = 1
    /\ start = 0
    /\ i = 0
    /\ idx = 0
    /\ scanned = 0
    /\ tokens = <<>>
    /\ lexeme = <<>>
    /\ pc = "scan"
    /\ result = Running

SpecBig == InitBig /\ [][Next]_vars

(***************************************************************************)
(* C20  Decimal range: a lexeme of decimal digits only is classified by    *)
(* make_token as the IntegerLiteral of its base-10 value or as an error,   *)
(* never as a FloatLiteral, whatever its magnitude.                        *)
(***************************************************************************)
DecimalRange ==
    RunClassified /\ AllDigits(Lexeme, 10) =>
        /\ ~Emitted("FloatLiteral", Lexeme, 0)
        /\ \/ result.status = "err"
           \/ InI64(Lexeme, 10)
                /\ Emitted("IntegerLiteral", <<>>, DigitsValue(Lexeme, 10))

====
